---- MODULE Spec2Model ----
(***************************************************************************)
(* A model of config_shell.py: the command line is parsed, a YAML          *)
(* configuration file is loaded into a Box, and six shell export lines are *)
(* printed.  Spec is one run of the script; SpecRerun is a run followed by *)
(* a second run on the same argument vector, in an environment that may    *)
(* have changed in between.                                                *)
(***************************************************************************)
EXTENDS Integers, Sequences, FiniteSets, TLC

VARIABLES
    argv,        \* sys.argv[1:], fixed over the runs
    fs,          \* the file system: path -> file content
    columns,     \* the terminal width shutil.get_terminal_size() reports
    prev,        \* the run before this one: its stdout, exit status, environment
    pc,          \* position of the run in the script
    args,        \* the namespace argument_parsing() returned
    handle,      \* ymlfile: "none", "open" or "closed"
    cfg,         \* what yaml.load returned
    config,      \* the Box load_config returned
    exc,         \* exception pending inside the with block ("" if none)
    out,         \* lines written to standard output
    err,         \* kind of the diagnostic written to standard error
    status,      \* exit status, -1 while the run is going
    openCalls,   \* paths open() was called with
    restic_cmd,  \* the local restic_cmd
    raisedAt     \* position at which the fatal exception was raised

vars == <<argv, fs, columns, prev, pc, args, handle, cfg, config, exc, out, err,
          status, openCalls, restic_cmd, raisedAt>>

\* ------------------------------------------------------------- bounds
MaxArgs == 2

\* ------------------------------------------------------ command line
\* The argument strings the model draws argument vectors from: the option in
\* its short, abbreviated and inline spellings, help in its two spellings,
\* the separator, an option the parser does not know, a negative number and
\* two plain strings.
Tokens == {"-r", "--rep", "--repo=myrepo", "--repo=--",
           "-h", "--help", "--", "-x", "-1", "myrepo", "alt.yml"}

Argvs == UNION {[1..n -> Tokens] : n \in 0..MaxArgs}

DefaultConfig == "config.yml"

\* parser._option_string_actions: add_help gives -h/--help, line 13 -r/--repo
OptionStrings == {"-h", "--help", "-r", "--repo"}
ActionOf(o) == IF o \in {"-h", "--help"} THEN "help" ELSE "repo"

NoArgs == [kind |-> "none", repo |-> "", config |-> ""]
ParseError == [kind |-> "error", repo |-> "", config |-> ""]
ParseHelp == [kind |-> "help", repo |-> "", config |-> ""]

\* ---- strings
\* s[i-1:j] of Python: the characters i..j that exist
Slice(s, i, j) ==
    IF i > j \/ i > Len(s) THEN ""
    ELSE SubSeq(s, i, IF j > Len(s) THEN Len(s) ELSE j)
Ch(s, i) == Slice(s, i, i)
StartsWith(s, p) == Len(p) <= Len(s) /\ Slice(s, 1, Len(p)) = p
HasChar(s, c) == \E i \in 1..Len(s) : Ch(s, i) = c
From(s, i) == Slice(s, i, Len(s))
EqAt(s) == CHOOSE i \in 1..Len(s) : Ch(s, i) = "=" /\ \A j \in 1..(i - 1) : Ch(s, j) # "="
BeforeEq(s) == Slice(s, 1, EqAt(s) - 1)
AfterEq(s) == From(s, EqAt(s) + 1)
\* \d+ over the characters a string of the model can hold (ASCII): one or
\* more of the ten digits.
AllDigits(s) ==
    /\ s # ""
    /\ \A i \in 1..Len(s) : Ch(s, i) \in {"0", "1", "2", "3", "4", "5", "6", "7", "8", "9"}

\* What '$' of a Python pattern lets the match end at: the end of the string,
\* or just before a newline that is its last character.
BeforeFinalNewline(s) ==
    IF Len(s) >= 1 /\ Ch(s, Len(s)) = "\n" THEN Slice(s, 1, Len(s) - 1) ELSE s

\* parser._negative_number_matcher.match: '^-\d+$|^-\d*\.\d+$'
NegativeNumber(s) ==
    LET t == BeforeFinalNewline(s)
    IN  /\ Len(t) >= 2
        /\ Ch(t, 1) = "-"
        /\ \/ AllDigits(From(t, 2))
           \/ \E d \in 2..(Len(t) - 1) :
                 /\ Ch(t, d) = "."
                 /\ d = 2 \/ AllDigits(Slice(t, 2, d - 1))
                 /\ AllDigits(From(t, d + 1))

\* ---- the help text: ArgumentParser.format_help through argparse.HelpFormatter
\* and textwrap, laid out to the width of the terminal.
Prog == "config_shell.py"
Description ==
    <<"Load", "configuration", "file", "to", "environnement", "variable", "to",
      "use", "shell", "command">>
ConfigHeader == "config"
ConfigHelp == <<"Configuration", "file", "(default:", "config.yml)">>
HelpHeader == "-h, --help"
HelpHelp == <<"show", "this", "help", "message", "and", "exit">>
RepoHeader == "-r REPO, --repo REPO"
RepoHelp == <<"Repository", "name">>
UsagePrefix == "usage: "
OptParts == <<"[-h]", "-r", "REPO">>
PosParts == <<"[config]">>

Min(a, b) == IF a <= b THEN a ELSE b
Max(a, b) == IF a >= b THEN a ELSE b
RECURSIVE Spaces(_)
Spaces(n) == IF n <= 0 THEN "" ELSE " " \o Spaces(n - 1)
RECURSIVE Join(_, _)
Join(parts, sep) ==
    IF parts = <<>> THEN ""
    ELSE IF Len(parts) = 1 THEN parts[1]
    ELSE parts[1] \o sep \o Join(Tail(parts), sep)

\* TextWrapper._split on words that hold no hyphen: the words and the blanks.
RECURSIVE Chunks(_)
Chunks(words) ==
    IF Len(words) <= 1 THEN words ELSE <<words[1], " ">> \o Chunks(Tail(words))

\* TextWrapper._wrap_chunks, the inner loop: chunks are taken while they fit.
RECURSIVE FillLine(_, _, _, _)
FillLine(chunks, width, cur, cur_len) ==
    IF chunks # <<>> /\ cur_len + Len(chunks[1]) <= width
    THEN FillLine(Tail(chunks), width, Append(cur, chunks[1]), cur_len + Len(chunks[1]))
    ELSE [cur |-> cur, cur_len |-> cur_len, rest |-> chunks]

\* TextWrapper._wrap_chunks (break_long_words, drop_whitespace): a blank is
\* dropped at the start of a line after the first, a chunk longer than the
\* width is cut to fill the line, a blank or empty chunk is dropped at its end.
RECURSIVE wrap_chunks(_, _, _)
wrap_chunks(chunks, width, lines) ==
    IF chunks = <<>> THEN lines
    ELSE LET start == IF chunks[1] = " " /\ lines # <<>> THEN Tail(chunks) ELSE chunks
             f == FillLine(start, width, <<>>, 0)
             long == f.rest # <<>> /\ Len(f.rest[1]) > width
             space_left == width - f.cur_len
             cur1 == IF long THEN Append(f.cur, Slice(f.rest[1], 1, space_left)) ELSE f.cur
             rest1 == IF long THEN <<From(f.rest[1], space_left + 1)>> \o Tail(f.rest)
                      ELSE f.rest
             cur2 == IF cur1 # <<>> /\ cur1[Len(cur1)] \in {" ", ""}
                     THEN SubSeq(cur1, 1, Len(cur1) - 1) ELSE cur1
         IN  wrap_chunks(rest1, width,
                         IF cur2 = <<>> THEN lines ELSE Append(lines, Join(cur2, "")))
wrap(words, width) == wrap_chunks(Chunks(words), width, <<>>)

\* HelpFormatter._format_usage, get_lines: the parts of the usage, wrapped.
RECURSIVE UsageLines(_, _, _, _, _, _)
UsageLines(parts, indent, line, line_len, lines, text_width) ==
    IF parts = <<>>
    THEN IF line # <<>> THEN Append(lines, indent \o Join(line, " ")) ELSE lines
    ELSE LET brk == line_len + 1 + Len(parts[1]) > text_width /\ line # <<>>
         IN  UsageLines(Tail(parts), indent,
                        Append(IF brk THEN <<>> ELSE line, parts[1]),
                        (IF brk THEN Len(indent) - 1 ELSE line_len) + Len(parts[1]) + 1,
                        IF brk THEN Append(lines, indent \o Join(line, " ")) ELSE lines,
                        text_width)
get_lines(parts, indent, text_width) ==
    UsageLines(parts, indent, <<>>, Len(indent) - 1, <<>>, text_width)
get_lines_after(prefix, parts, indent, text_width) ==
    LET lines == UsageLines(parts, indent, <<>>, Len(prefix) - 1, <<>>, text_width)
    IN  <<From(lines[1], Len(indent) + 1)>> \o Tail(lines)

\* HelpFormatter._format_usage: the usage on one line if it fits the width,
\* else wrapped after the program name, or under it when the name is long.
format_usage(prog, width) ==
    LET usage == Join(<<prog>> \o OptParts \o PosParts, " ")
        lines ==
            IF Len(UsagePrefix) + Len(usage) <= width THEN <<usage>>
            ELSE IF 4 * (Len(UsagePrefix) + Len(prog)) <= 3 * width
            THEN LET indent == Spaces(Len(UsagePrefix) + Len(prog) + 1)
                 IN  get_lines_after(UsagePrefix, <<prog>> \o OptParts, indent, width)
                        \o get_lines(PosParts, indent, width)
            ELSE LET indent == Spaces(Len(UsagePrefix))
                     one == get_lines(OptParts \o PosParts, indent, width)
                 IN  <<prog>> \o (IF Len(one) > 1
                                  THEN get_lines(OptParts, indent, width)
                                          \o get_lines(PosParts, indent, width)
                                  ELSE one)
    IN  <<UsagePrefix \o lines[1]>> \o Tail(lines)

\* HelpFormatter._format_action, inside a section (indent 2): the invocation,
\* then the help from the help position on, on the same line if it fits.
format_action(header, help, width) ==
    LET action_max_length == 2 + Max(Len(ConfigHeader), Max(Len(HelpHeader), Len(RepoHeader)))
        max_help_position == Min(24, Max(width - 20, 4))
        help_position == Min(action_max_length + 2, max_help_position)
        help_width == Max(width - help_position, 11)
        action_width == help_position - 2 - 2
        help_lines == wrap(help, help_width)
    IN  IF Len(header) <= action_width
        THEN <<Spaces(2) \o header \o Spaces(action_width - Len(header)) \o "  "
                  \o help_lines[1]>>
               \o [i \in 1..(Len(help_lines) - 1) |-> Spaces(help_position) \o help_lines[i + 1]]
        ELSE <<Spaces(2) \o header>>
               \o [i \in 1..Len(help_lines) |-> Spaces(help_position) \o help_lines[i]]

\* ArgumentParser.format_help with the width HelpFormatter.__init__ takes from
\* shutil.get_terminal_size(): the lines print_help writes to standard output.
HelpText(cols) ==
    LET width == cols - 2
    IN  format_usage(Prog, width)
        \o <<"">> \o wrap(Description, Max(width, 11))
        \o <<"", "positional arguments:">> \o format_action(ConfigHeader, ConfigHelp, width)
        \o <<"", "options:">> \o format_action(HelpHeader, HelpHelp, width)
        \o format_action(RepoHeader, RepoHelp, width)

\* ---- how argparse reads one argument string
Positional == [cls |-> "A", action |-> "none", opt |-> "", explicit |-> <<>>]
Ambiguous == [cls |-> "amb", action |-> "none", opt |-> "", explicit |-> <<>>]
Unknown == [cls |-> "O", action |-> "none", opt |-> "", explicit |-> <<>>]
Optional(o, e) == [cls |-> "O", action |-> ActionOf(o), opt |-> o, explicit |-> e]

\* ArgumentParser._get_option_tuples: abbreviations of the long options, and
\* a short option with its argument attached.
get_option_tuples(s) ==
    IF Ch(s, 2) = "-"
    THEN LET prefix == IF HasChar(s, "=") THEN BeforeEq(s) ELSE s
             e == IF HasChar(s, "=") THEN <<AfterEq(s)>> ELSE <<>>
         IN {Optional(o, e) : o \in {x \in OptionStrings : StartsWith(x, prefix)}}
    ELSE {Optional(o, <<From(s, 3)>>) : o \in {x \in OptionStrings : x = Slice(s, 1, 2)}}
         \cup {Optional(o, <<>>) :
                 o \in {x \in OptionStrings : x # Slice(s, 1, 2) /\ StartsWith(x, s)}}

\* ArgumentParser._parse_optional
parse_optional(s) ==
    IF s = "" THEN Positional
    ELSE IF Ch(s, 1) # "-" THEN Positional
    ELSE IF s \in OptionStrings THEN Optional(s, <<>>)
    ELSE IF Len(s) = 1 THEN Positional
    ELSE IF HasChar(s, "=") /\ BeforeEq(s) \in OptionStrings
         THEN Optional(BeforeEq(s), <<AfterEq(s)>>)
    ELSE LET t == get_option_tuples(s) IN
         IF Cardinality(t) > 1 THEN Ambiguous
         ELSE IF Cardinality(t) = 1 THEN CHOOSE x \in t : TRUE
         ELSE IF NegativeNumber(s) THEN Positional
         ELSE IF HasChar(s, " ") THEN Positional
         ELSE Unknown

\* The option tuple of every argument string before the first '--'
\* (option_string_indices), and the arg_strings_pattern: 'O' an option, 'A' an
\* argument, '-' the first '--'; every string after it is an argument.
AfterDashes(a, i) == \E j \in 1..(i - 1) : a[j] = "--"
OptionTuples(a) ==
    [i \in 1..Len(a) |->
        IF AfterDashes(a, i) \/ a[i] = "--" THEN Positional ELSE parse_optional(a[i])]
Pattern(a, tuples) ==
    [i \in 1..Len(a) |->
        IF AfterDashes(a, i) THEN "A"
        ELSE IF a[i] = "--" THEN "-"
        ELSE IF tuples[i].cls = "A" THEN "A" ELSE "O"]
At(pat, i) == IF i \in DOMAIN pat THEN pat[i] ELSE ""

\* _get_values strips the first '--' of the strings an action receives; a
\* single value that is left gives the string, none left gives an empty list
\* for an action that takes one argument.
RepoValue(x) == IF x = "--" THEN "[]" ELSE x

\* -h with more characters attached: -hX is read as -h -X.
RECURSIVE HelpChain(_, _)
HelpChain(e, nextIsArg) ==
    IF Ch(e, 1) = "h"
    THEN IF Len(e) = 1 THEN "help" ELSE HelpChain(From(e, 2), nextIsArg)
    ELSE IF Ch(e, 1) = "r"
    THEN IF Len(e) > 1 \/ nextIsArg THEN "help" ELSE "error"
    ELSE "error"

\* The positionals consumed after the last option: config (nargs='?') takes
\* '-*A?-*' of the pattern, when it has not been taken before.
FinalCount(pat, i) ==
    LET n1 == IF At(pat, i) = "-" THEN 1 ELSE 0
        n2 == IF At(pat, i + n1) = "A" THEN 1 ELSE 0
        n3 == IF At(pat, i + n1 + n2) = "-" THEN 1 ELSE 0
    IN <<n1, n2, n3>>

\* ArgumentParser._parse_known_args, then the checks of parse_args.  st holds
\* repo, whether -r/--repo was seen, config, whether the positional is still
\* to be taken, and whether unrecognized strings were met.
RECURSIVE ParseFrom(_, _, _, _, _)
ParseFrom(a, tuples, pat, i, st) ==
    IF \A j \in i..Len(a) : pat[j] # "O" THEN
        LET n == FinalCount(pat, i)
            count == IF st.left THEN n[1] + n[2] + n[3] ELSE 0
            conf == IF st.left /\ n[2] = 1 THEN a[i + n[1]] ELSE st.config
            extras == st.extras \/ i + count <= Len(a)
        IN IF ~st.seen THEN ParseError
           ELSE IF extras THEN ParseError
           ELSE [kind |-> "ok", repo |-> st.repo, config |-> conf]
    ELSE IF pat[i] = "A" THEN
        IF st.left
        THEN ParseFrom(a, tuples, pat, i + 1, [st EXCEPT !.config = a[i], !.left = FALSE])
        ELSE ParseFrom(a, tuples, pat, i + 1, [st EXCEPT !.extras = TRUE])
    ELSE LET t == tuples[i] IN
        IF t.action = "none"
        THEN ParseFrom(a, tuples, pat, i + 1, [st EXCEPT !.extras = TRUE])
        ELSE IF t.explicit # <<>> THEN
            IF t.action = "repo"
            THEN ParseFrom(a, tuples, pat, i + 1,
                           [st EXCEPT !.repo = RepoValue(t.explicit[1]), !.seen = TRUE])
            ELSE IF Ch(t.opt, 2) # "-" /\ t.explicit[1] # ""
                 THEN IF HelpChain(t.explicit[1], At(pat, i + 1) = "A") = "help"
                      THEN ParseHelp ELSE ParseError
                 ELSE ParseError
        ELSE IF t.action = "help" THEN ParseHelp
        ELSE IF At(pat, i + 1) = "A"
             THEN ParseFrom(a, tuples, pat, i + 2,
                            [st EXCEPT !.repo = RepoValue(a[i + 1]), !.seen = TRUE])
             ELSE ParseError

ParseStart == [repo |-> "", seen |-> FALSE, config |-> DefaultConfig,
               left |-> TRUE, extras |-> FALSE]

ParseWith(a, tuples, st) ==
    IF \E i \in 1..Len(a) : tuples[i].cls = "amb" THEN ParseError
    ELSE ParseFrom(a, tuples, Pattern(a, tuples), 1, st)

\* Mutant: -r/--repo declared without required=True.
argument_parsing_optional(a) ==
    ParseWith(a, OptionTuples(a), [ParseStart EXCEPT !.repo = "None", !.seen = TRUE])

argument_parsing(a) == ParseWith(a, OptionTuples(a), ParseStart)

\* ------------------------------------------------------- file system
InfoKeys == {"rclone_connection_name", "client_name", "bucket_name", "server_name"}

StrVal(s) == [t |-> "str", s |-> s]
NoneVal == [t |-> "none", s |-> ""]

\* str() of a YAML scalar, as an f-string formats it
PyStr(v) == IF v.t = "none" THEN "None" ELSE v.s

MainInfo == [k \in InfoKeys |->
               CASE k = "rclone_connection_name" -> StrVal("r1")
                 [] k = "client_name" -> StrVal("c1")
                 [] k = "bucket_name" -> StrVal("b1")
                 [] k = "server_name" -> StrVal("s1")]
AltInfo == [k \in InfoKeys |->
               CASE k = "rclone_connection_name" -> StrVal("r2")
                 [] k = "client_name" -> NoneVal
                 [] k = "bucket_name" -> StrVal("b2")
                 [] k = "server_name" -> StrVal("s2")]

Restrict(f, S) == [k \in S |-> f[k]]

InfoSections == {Restrict(MainInfo, S) : S \in SUBSET InfoKeys}
MainBinaries == [k \in {"restic"} |-> StrVal("/usr/bin/restic")]

\* Documents: any subset of the information keys with binaries.restic; all
\* of them with no binaries section, or with an empty one; no information
\* section; the empty mapping.
Docs ==
    {[k \in {"information", "binaries"} |->
        IF k = "information" THEN i ELSE MainBinaries] : i \in InfoSections}
    \cup {[k \in {"information"} |-> MainInfo]}
    \cup {[k \in {"information", "binaries"} |->
            IF k = "information" THEN MainInfo ELSE <<>>]}
    \cup {[k \in {"binaries"} |-> MainBinaries]}
    \cup {<<>>}

AltDoc == [k \in {"information", "binaries"} |->
             IF k = "information" THEN AltInfo
             ELSE [j \in {"restic"} |-> StrVal("restic")]]

Missing == [kind |-> "missing", doc |-> <<>>]
Invalid == [kind |-> "invalid", doc |-> <<>>]
Scalar == [kind |-> "scalar", doc |-> <<>>]
Mapping(d) == [kind |-> "mapping", doc |-> d]
NoDoc == [kind |-> "none", doc |-> <<>>]

\* The files that exist: config.yml may and alt.yml does; no other path does.
FileSystems ==
    {[p \in {DefaultConfig, "alt.yml"} |->
        IF p = DefaultConfig THEN c ELSE Mapping(AltDoc)] :
     c \in {Missing, Invalid, Scalar} \cup {Mapping(d) : d \in Docs}}

FileAt(f, p) == IF p \in DOMAIN f THEN f[p] ELSE Missing

\* What may become of the file system between two runs: nothing, or one of
\* the files is removed.
Rewrites(f) == {f} \cup {[f EXCEPT ![p] = Missing] : p \in DOMAIN f}

\* The terminal widths of the model: the usual one and a narrow one.
Widths == {80, 40}

NoRun == [set |-> FALSE, out |-> <<>>, status |-> -1, fs |-> <<>>, columns |-> 0]

\* --------------------------------------------------------------- Box
\* Attribute access on a Box raises BoxKeyError when the key is absent.
HasInfo(box, k) == "information" \in DOMAIN box /\ k \in DOMAIN box["information"]
HasRestic(box) == "binaries" \in DOMAIN box /\ "restic" \in DOMAIN box["binaries"]
Info(box, k) == box["information"][k]

NoBox == [set |-> FALSE, box |-> <<>>]

\* ------------------------------------------------------- the f-strings
\* Mutant: every value wrapped in double quotes.
ExportLine_quoted(name, value) == "export " \o name \o "=\"" \o value \o "\""

ExportLine(name, value) == "export " \o name \o "=" \o value

ResticCmdNeeds(box) == HasRestic(box) /\ \A k \in InfoKeys : HasInfo(box, k)

ResticCmd(box, repo) ==
    PyStr(box["binaries"]["restic"]) \o " "
    \o "-r rclone:" \o PyStr(Info(box, "rclone_connection_name")) \o ":"
    \o PyStr(Info(box, "bucket_name")) \o "/"
    \o PyStr(Info(box, "client_name")) \o "/"
    \o PyStr(Info(box, "server_name")) \o "/" \o repo

ResticCmdLine(cmd) == "export RESTIC_CMD=\"" \o cmd \o "\""

\* ------------------------------------------------------------ the run
Init ==
    /\ argv \in Argvs
    /\ fs \in FileSystems
    /\ columns \in Widths
    /\ prev = NoRun
    /\ pc = "start"
    /\ args = NoArgs
    /\ handle = "none"
    /\ cfg = NoDoc
    /\ config = NoBox
    /\ exc = ""
    /\ out = <<>>
    /\ err = ""
    /\ status = -1
    /\ openCalls = <<>>
    /\ restic_cmd = ""
    /\ raisedAt = ""

\* An uncaught exception: traceback on stderr, exit status 1.
Raise(e, at) ==
    /\ pc' = "exit"
    /\ status' = 1
    /\ err' = e
    /\ raisedAt' = at

\* line 25: args = argument_parsing()
Parse ==
    /\ pc = "start"
    /\ LET r == argument_parsing(argv) IN
         CASE r.kind = "ok" ->
                /\ args' = r
                /\ pc' = "load"
                /\ UNCHANGED <<out, err, status, raisedAt>>
           [] r.kind = "help" ->
                /\ out' = out \o HelpText(columns)
                /\ pc' = "exit"
                /\ status' = 0
                /\ UNCHANGED <<args, err, raisedAt>>
           [] OTHER ->
                /\ pc' = "exit"
                /\ status' = 2
                /\ err' = "usage"
                /\ raisedAt' = "start"
                /\ UNCHANGED <<args, out>>
    /\ UNCHANGED <<argv, fs, columns, prev, handle, cfg, config, exc, openCalls, restic_cmd>>

\* Mutant: a missing file is taken for an empty configuration.
OpenFile_swallow ==
    /\ pc = "load"
    /\ openCalls' = Append(openCalls, args.config)
    /\ IF FileAt(fs, args.config).kind = "missing"
       THEN /\ cfg' = Mapping(<<>>)
            /\ pc' = "box"
            /\ UNCHANGED handle
       ELSE /\ handle' = "open"
            /\ pc' = "yaml"
            /\ UNCHANGED cfg
    /\ UNCHANGED <<argv, fs, columns, prev, args, config, exc, out, restic_cmd,
                   status, err, raisedAt>>

\* Mutant: the default path is opened whatever args.config holds.
OpenFile_fixed ==
    /\ pc = "load"
    /\ openCalls' = Append(openCalls, DefaultConfig)
    /\ IF FileAt(fs, DefaultConfig).kind = "missing"
       THEN /\ Raise("FileNotFoundError", "load")
            /\ UNCHANGED handle
       ELSE /\ handle' = "open"
            /\ pc' = "yaml"
            /\ UNCHANGED <<status, err, raisedAt>>
    /\ UNCHANGED <<argv, fs, columns, prev, args, cfg, config, exc, out, restic_cmd>>

\* Mutant: a path that does not exist falls back to config.yml.
OpenFile_fallback ==
    /\ pc = "load"
    /\ LET path == IF FileAt(fs, args.config).kind = "missing" THEN DefaultConfig
                   ELSE args.config
       IN  /\ openCalls' = Append(openCalls, path)
           /\ IF FileAt(fs, path).kind = "missing"
              THEN /\ Raise("FileNotFoundError", "load")
                   /\ UNCHANGED handle
              ELSE /\ handle' = "open"
                   /\ pc' = "yaml"
                   /\ UNCHANGED <<status, err, raisedAt>>
    /\ UNCHANGED <<argv, fs, columns, prev, args, cfg, config, exc, out, restic_cmd>>

\* line 19: open(filename, 'r')
OpenFile ==
    /\ pc = "load"
    /\ openCalls' = Append(openCalls, args.config)
    /\ IF FileAt(fs, args.config).kind = "missing"
       THEN /\ Raise("FileNotFoundError", "load")
            /\ UNCHANGED handle
       ELSE /\ handle' = "open"
            /\ pc' = "yaml"
            /\ UNCHANGED <<status, err, raisedAt>>
    /\ UNCHANGED <<argv, fs, columns, prev, args, cfg, config, exc, out, restic_cmd>>

\* line 20: cfg = yaml.load(ymlfile, Loader=yaml.FullLoader)
YamlLoad ==
    /\ pc = "yaml"
    /\ LET content == FileAt(fs, openCalls[Len(openCalls)]) IN
         IF content.kind = "invalid"
         THEN /\ exc' = "YAMLError"
              /\ UNCHANGED cfg
         ELSE /\ cfg' = content
              /\ UNCHANGED exc
    /\ pc' = "with_exit"
    /\ UNCHANGED <<argv, fs, columns, prev, args, handle, config, out, err, status,
                   openCalls, restic_cmd, raisedAt>>

\* Mutant: the file is opened without a with block and never closed.
WithExit_leak ==
    /\ pc = "with_exit"
    /\ IF exc # ""
       THEN Raise(exc, "yaml")
       ELSE /\ pc' = "box"
            /\ UNCHANGED <<status, err, raisedAt>>
    /\ UNCHANGED <<argv, fs, columns, prev, args, handle, cfg, config, exc, out,
                   openCalls, restic_cmd>>

\* line 19-20: leaving the with block closes ymlfile, on return and on raise
WithExit ==
    /\ pc = "with_exit"
    /\ handle' = "closed"
    /\ IF exc # ""
       THEN Raise(exc, "yaml")
       ELSE /\ pc' = "box"
            /\ UNCHANGED <<status, err, raisedAt>>
    /\ UNCHANGED <<argv, fs, columns, prev, args, cfg, config, exc, out, openCalls,
                   restic_cmd>>

\* Mutant: the document is validated against the schema when it is loaded.
BoxWrap_validate ==
    /\ pc = "box"
    /\ IF cfg.kind = "mapping" /\ ResticCmdNeeds(cfg.doc)
       THEN /\ config' = [set |-> TRUE, box |-> cfg.doc]
            /\ pc' = "p1"
            /\ UNCHANGED <<status, err, raisedAt>>
       ELSE /\ Raise("BoxValueError", "box")
            /\ UNCHANGED config
    /\ UNCHANGED <<argv, fs, columns, prev, args, handle, cfg, exc, out, openCalls,
                   restic_cmd>>

\* line 21: return Box(cfg, box_it_up=True)
BoxWrap ==
    /\ pc = "box"
    /\ IF cfg.kind = "mapping"
       THEN /\ config' = [set |-> TRUE, box |-> cfg.doc]
            /\ pc' = "p1"
            /\ UNCHANGED <<status, err, raisedAt>>
       ELSE /\ Raise("BoxValueError", "box")
            /\ UNCHANGED config
    /\ UNCHANGED <<argv, fs, columns, prev, args, handle, cfg, exc, out, openCalls,
                   restic_cmd>>

\* Mutant: an absent key reads as None (a Box built with default_box).
PrintInfo_default(at, next, name, key) ==
    /\ pc = at
    /\ out' = Append(out, ExportLine(name,
                  IF HasInfo(config.box, key) THEN PyStr(Info(config.box, key))
                  ELSE "None"))
    /\ pc' = next
    /\ UNCHANGED <<argv, fs, columns, prev, args, handle, cfg, config, exc, openCalls,
                   restic_cmd, status, err, raisedAt>>

\* lines 28-31: print(f"export NAME={config.information.<key>}")
PrintInfo(at, next, name, key) ==
    /\ pc = at
    /\ IF HasInfo(config.box, key)
       THEN /\ out' = Append(out, ExportLine(name, PyStr(Info(config.box, key))))
            /\ pc' = next
            /\ UNCHANGED <<status, err, raisedAt>>
       ELSE /\ Raise("BoxKeyError", at)
            /\ UNCHANGED out
    /\ UNCHANGED <<argv, fs, columns, prev, args, handle, cfg, config, exc, openCalls,
                   restic_cmd>>

\* line 28
PrintConnection == PrintInfo("p1", "p2", "RCLONE_CONNECTION_NAME", "rclone_connection_name")
\* line 29
PrintClient == PrintInfo("p2", "p3", "CLIENT_NAME", "client_name")
\* line 30
PrintBucket == PrintInfo("p3", "p4", "BUCKET_NAME", "bucket_name")
\* line 31
PrintServer == PrintInfo("p4", "p5", "SERVER_NAME", "server_name")

\* line 32: print(f"export RESTIC_REPO_NAME={args.repo}")
PrintRepo ==
    /\ pc = "p5"
    /\ out' = Append(out, ExportLine("RESTIC_REPO_NAME", args.repo))
    /\ pc' = "cmd"
    /\ UNCHANGED <<argv, fs, columns, prev, args, handle, cfg, config, exc, err, status,
                   openCalls, restic_cmd, raisedAt>>

\* lines 33-37: restic_cmd = (fr"..." fr"..." fr"...")
BuildCmd ==
    /\ pc = "cmd"
    /\ IF ResticCmdNeeds(config.box)
       THEN /\ restic_cmd' = ResticCmd(config.box, args.repo)
            /\ pc' = "p6"
            /\ UNCHANGED <<status, err, raisedAt>>
       ELSE /\ Raise("BoxKeyError", "cmd")
            /\ UNCHANGED restic_cmd
    /\ UNCHANGED <<argv, fs, columns, prev, args, handle, cfg, config, exc, out,
                   openCalls>>

\* line 38: print(f"export RESTIC_CMD=\"{restic_cmd}\""), then the script ends
PrintCmd ==
    /\ pc = "p6"
    /\ out' = Append(out, ResticCmdLine(restic_cmd))
    /\ pc' = "exit"
    /\ status' = 0
    /\ UNCHANGED <<argv, fs, columns, prev, args, handle, cfg, config, exc, err,
                   openCalls, restic_cmd, raisedAt>>

\* One step of the running script.
RunStep ==
    \/ Parse
    \/ OpenFile
    \/ YamlLoad
    \/ WithExit
    \/ BoxWrap
    \/ PrintConnection
    \/ PrintClient
    \/ PrintBucket
    \/ PrintServer
    \/ PrintRepo
    \/ BuildCmd
    \/ PrintCmd

Next == RunStep

Spec == Init /\ [][Next]_vars

\* line 24: the script is started a second time, in a fresh process, on the
\* same argument vector; the terminal may have another width and a file may
\* have been removed since the first run.
Rerun ==
    /\ pc = "exit"
    /\ ~prev.set
    /\ prev' = [set |-> TRUE, out |-> out, status |-> status, fs |-> fs,
                columns |-> columns]
    /\ columns' \in Widths
    /\ fs' \in Rewrites(fs)
    /\ pc' = "start"
    /\ args' = NoArgs
    /\ handle' = "none"
    /\ cfg' = NoDoc
    /\ config' = NoBox
    /\ exc' = ""
    /\ out' = <<>>
    /\ err' = ""
    /\ status' = -1
    /\ openCalls' = <<>>
    /\ restic_cmd' = ""
    /\ raisedAt' = ""
    /\ UNCHANGED argv

NextRerun == RunStep \/ Rerun

SpecRerun == Init /\ [][NextRerun]_vars

\* ====================================================== the properties
\* The command line `-r <repo> [config]` read off the argument vector alone.
\* The repository option is written -r or --repo (or an abbreviation of it)
\* followed by its value, or with the value attached (-rV, -r=V, --repo=V); a
\* plain string does not begin with '-', unless it writes a negative number.
SeparateFlag(s) == s \in {"-r", "--repo", "--rep", "--re", "--r"}
InlineFlag(s) ==
    \/ Len(s) > 2 /\ Slice(s, 1, 2) = "-r"
    \/ \E p \in {"--repo=", "--rep=", "--re=", "--r="} :
          Len(p) <= Len(s) /\ Slice(s, 1, Len(p)) = p
InlineValue(s) ==
    IF Slice(s, 1, 2) = "--"
    THEN Slice(s, (CHOOSE i \in 1..Len(s) : Slice(s, i, i) = "="
                       /\ \A j \in 1..(i - 1) : Slice(s, j, j) # "=") + 1, Len(s))
    ELSE IF Slice(s, 3, 3) = "=" THEN Slice(s, 4, Len(s)) ELSE Slice(s, 3, Len(s))
Plain(s) == s = "" \/ Slice(s, 1, 1) # "-" \/ NegativeNumber(s)

FlagPos(a) == {i \in 1..Len(a) : SeparateFlag(a[i])}
ValuePos(a) == {i + 1 : i \in FlagPos(a)}
InlinePos(a) == {i \in 1..Len(a) : i \notin ValuePos(a) /\ InlineFlag(a[i])}
RepoPos(a) == FlagPos(a) \cup InlinePos(a)
FreePos(a) ==
    LET flags == FlagPos(a)
        values == {i + 1 : i \in flags}
    IN  {i \in 1..Len(a) : i \notin flags /\ i \notin values /\ ~InlineFlag(a[i])}

CliForm(a) ==
    LET flags == FlagPos(a)
        free == FreePos(a)
    IN  /\ flags \cup InlinePos(a) # {}
        /\ \A i \in flags : i + 1 <= Len(a) /\ Plain(a[i + 1])
        /\ \A i \in free : Plain(a[i])
        /\ Cardinality(free) <= 1

LastRepoPos(a) ==
    LET repos == RepoPos(a) IN CHOOSE i \in repos : \A j \in repos : j <= i
RepoGiven(a) ==
    LET last == LastRepoPos(a)
    IN  IF SeparateFlag(a[last]) THEN a[last + 1] ELSE InlineValue(a[last])
PathGiven(a) ==
    LET free == FreePos(a)
    IN  IF free = {} THEN "config.yml" ELSE a[CHOOSE i \in free : TRUE]

\* No string of the vector spells the option: -r..., --r... / -h..., --h...
NoRepoOption(a) ==
    \A i \in 1..Len(a) : Slice(a[i], 1, 2) # "-r" /\ Slice(a[i], 1, 3) # "--r"
NoHelpOption(a) ==
    \A i \in 1..Len(a) : Slice(a[i], 1, 2) # "-h" /\ Slice(a[i], 1, 3) # "--h"

\* The document the run is to load, and whether it has the five fields.
Given == FileAt(fs, PathGiven(argv))
DocHas(d, sec, k) == sec \in DOMAIN d /\ k \in DOMAIN d[sec]
WellFormed(c) ==
    /\ c.kind = "mapping"
    /\ DocHas(c.doc, "information", "rclone_connection_name")
    /\ DocHas(c.doc, "information", "client_name")
    /\ DocHas(c.doc, "information", "bucket_name")
    /\ DocHas(c.doc, "information", "server_name")
    /\ DocHas(c.doc, "binaries", "restic")
DocStr(d, sec, k) == IF d[sec][k].t = "none" THEN "None" ELSE d[sec][k].s

IsExport(line) == Len(line) >= 7 /\ SubSeq(line, 1, 7) = "export "
ExportLines(o) == SelectSeq(o, IsExport)
NoQuote(line) == \A j \in 1..Len(line) : SubSeq(line, j, j) # "\""
IsPrefix(s, t) == Len(s) <= Len(t) /\ s = SubSeq(t, 1, Len(s))

\* The i-th line of a successful run, from the document and the repository name
\* the render step is given.
ExpectedLine(d, repo, i) ==
    CASE i = 1 -> "export RCLONE_CONNECTION_NAME="
                    \o DocStr(d, "information", "rclone_connection_name")
      [] i = 2 -> "export CLIENT_NAME=" \o DocStr(d, "information", "client_name")
      [] i = 3 -> "export BUCKET_NAME=" \o DocStr(d, "information", "bucket_name")
      [] i = 4 -> "export SERVER_NAME=" \o DocStr(d, "information", "server_name")
      [] i = 5 -> "export RESTIC_REPO_NAME=" \o repo
      [] i = 6 -> "export RESTIC_CMD=\""
                    \o DocStr(d, "binaries", "restic") \o " -r rclone:"
                    \o DocStr(d, "information", "rclone_connection_name") \o ":"
                    \o DocStr(d, "information", "bucket_name") \o "/"
                    \o DocStr(d, "information", "client_name") \o "/"
                    \o DocStr(d, "information", "server_name") \o "/"
                    \o repo \o "\""

\* Whether line i can be rendered from document d.
LineRenders(d, i) ==
    CASE i = 1 -> DocHas(d, "information", "rclone_connection_name")
      [] i = 2 -> DocHas(d, "information", "client_name")
      [] i = 3 -> DocHas(d, "information", "bucket_name")
      [] i = 4 -> DocHas(d, "information", "server_name")
      [] i = 5 -> TRUE
      [] i = 6 -> WellFormed([kind |-> "mapping", doc |-> d])

\* The first line that needs a key the document lacks (7 if there is none).
FirstFailing(d) ==
    IF \A i \in 1..6 : LineRenders(d, i) THEN 7
    ELSE CHOOSE i \in 1..6 :
            ~LineRenders(d, i) /\ \A j \in 1..(i - 1) : LineRenders(d, j)

PositionOfLine(i) == <<"p1", "p2", "p3", "p4", "p5", "cmd">>[i]

\* C1: for a well-formed configuration document and a repository name R given
\* with -r/--repo, the run terminates (it can always take a step until it has
\* exited), and it exits with exactly six lines on standard output, the fifth
\* being `export RESTIC_REPO_NAME=R`.
C1_SixLinesRepoFifth ==
    (CliForm(argv) /\ WellFormed(Given)) =>
        /\ pc # "exit" => ENABLED RunStep
        /\ Len(out) <= 6
        /\ pc = "exit" =>
              /\ status = 0
              /\ Len(out) = 6
              /\ out[5] = "export RESTIC_REPO_NAME=" \o RepoGiven(argv)

\* C2: for a well-formed configuration and a repository name R given with
\* -r/--repo the RESTIC_CMD line is `export RESTIC_CMD="V"` where V is
\* <restic> ' -r rclone:' <conn> ':' <bucket> '/' <client> '/' <server> '/' R,
\* with nothing before, between or after; the five fields are the file's.
RestCmdPrefix == "export RESTIC_CMD=\""
Quoted(line) == SubSeq(line, Len(RestCmdPrefix) + 1, Len(line) - 1)

C2_ResticCmdValue ==
    LET given == Given
    IN
        (pc = "exit" /\ CliForm(argv) /\ WellFormed(given)) =>
            /\ Len(out) = 6
            /\ Len(out[6]) > Len(RestCmdPrefix)
            /\ SubSeq(out[6], 1, Len(RestCmdPrefix)) = RestCmdPrefix
            /\ SubSeq(out[6], Len(out[6]), Len(out[6])) = "\""
            /\ Quoted(out[6]) =
                  DocStr(given.doc, "binaries", "restic") \o " -r rclone:"
                  \o DocStr(given.doc, "information", "rclone_connection_name") \o ":"
                  \o DocStr(given.doc, "information", "bucket_name") \o "/"
                  \o DocStr(given.doc, "information", "client_name") \o "/"
                  \o DocStr(given.doc, "information", "server_name") \o "/"
                  \o RepoGiven(argv)

\* C3: the lines appear in the fixed order RCLONE_CONNECTION_NAME, CLIENT_NAME,
\* BUCKET_NAME, SERVER_NAME, RESTIC_REPO_NAME, RESTIC_CMD: at every moment of
\* a run on a well-formed document standard output is a prefix of these six
\* lines, and all six at the exit; every line begins with `export `, lines
\* 1-4 carry the four information values, lines 1-5 hold no quote and only
\* the RESTIC_CMD value is wrapped in double quotes.
C3_FixedOrder ==
    LET given == Given
    IN
        (CliForm(argv) /\ WellFormed(given)) =>
            /\ IsPrefix(out, [i \in 1..6 |-> ExpectedLine(given.doc, args.repo, i)])
            /\ pc = "exit" => Len(out) = 6
            /\ \A i \in 1..Len(out) :
                  /\ IsExport(out[i])
                  /\ i <= 5 => NoQuote(out[i])
                  /\ i = 6 =>
                        /\ SubSeq(out[i], 1, Len(RestCmdPrefix)) = RestCmdPrefix
                        /\ SubSeq(out[i], Len(out[i]), Len(out[i])) = "\""
                        /\ NoQuote(Quoted(out[i]))

C3_Witness ==
    /\ CliForm(argv) /\ WellFormed(Given)
    /\ pc = "exit"
    /\ SubSeq(out, 1, 4) = <<"export RCLONE_CONNECTION_NAME=r2", "export CLIENT_NAME=None",
                             "export BUCKET_NAME=b2", "export SERVER_NAME=s2">>

\* C4 as stated: with no -r/--repo option in the argument vector the run ends
\* with a non-zero exit status, no export line, and the file never opened.
C4_Original ==
    (NoRepoOption(argv) /\ pc = "exit") =>
        /\ status # 0
        /\ ExportLines(out) = <<>>
        /\ openCalls = <<>>

\* C4 amended: with no -r/--repo option the run writes no export line and
\* never opens the configuration file; with no -h option either, it ends
\* with a non-zero exit status and a usage error.
C4_NoRepoNoExports ==
    NoRepoOption(argv) =>
        /\ ExportLines(out) = <<>>
        /\ openCalls = <<>>
        /\ handle = "none"
        /\ pc \in {"start", "exit"}
        /\ (pc = "exit" /\ NoHelpOption(argv)) => (status # 0 /\ err = "usage")

C4_Witness ==
    /\ NoRepoOption(argv) /\ NoHelpOption(argv)
    /\ argv = <<"alt.yml">>
    /\ fs["alt.yml"].kind = "mapping"
    /\ pc = "exit" /\ status = 2

\* C5: with --repo given and a configuration path that does not exist the run
\* ends with a non-zero exit status and a file-error diagnostic, and nothing
\* has been written to standard output.
C5_MissingFile ==
    LET given == Given
    IN
        (CliForm(argv) /\ given.kind = "missing") =>
            /\ out = <<>>
            /\ pc = "exit" =>
                  /\ status # 0
                  /\ err = "FileNotFoundError"
                  /\ raisedAt = "load"

C5_Witness ==
    /\ CliForm(argv) /\ Given.kind = "missing"
    /\ PathGiven(argv) = "myrepo"
    /\ pc = "exit" /\ err = "FileNotFoundError"

\* C6: with the positional omitted the path given to open() is exactly
\* `config.yml`, with the positional supplied it is exactly that string; open()
\* is called once in the run, and never a second time.
C6_PathOpened ==
    /\ Len(openCalls) <= 1
    /\ CliForm(argv) =>
          /\ pc \notin {"start", "load"} => Len(openCalls) = 1
          /\ (openCalls # <<>> /\ FreePos(argv) = {}) => openCalls[1] = "config.yml"
          /\ (openCalls # <<>> /\ FreePos(argv) # {}) =>
                \E i \in FreePos(argv) : openCalls[1] = argv[i]

C6_Witness ==
    /\ CliForm(argv) /\ FreePos(argv) = {}
    /\ pc = "exit" /\ openCalls = <<"config.yml">>
    /\ fs["alt.yml"].kind = "mapping"

C6_WitnessSupplied ==
    /\ CliForm(argv) /\ FreePos(argv) # {}
    /\ pc = "exit" /\ openCalls = <<"alt.yml">>

\* The second run is given what the first was: the argument vector is the
\* same in both, and so is the content of the configuration file it names
\* (of every file, when the vector is not of the form -r R [config]).
SameInputs ==
    IF CliForm(argv)
    THEN FileAt(fs, PathGiven(argv)) = FileAt(prev.fs, PathGiven(argv))
    ELSE fs = prev.fs

\* C7 as stated: two runs given the same argument vector and the same
\* configuration file contents end with byte-identical standard output and
\* the same exit status.
C7_Original ==
    (prev.set /\ pc = "exit" /\ SameInputs) =>
        (out = prev.out /\ status = prev.status)

\* C7 amended: two runs given the same argument vector and the same
\* configuration file contents end with the same exit status, whatever became
\* of the other files and of the terminal, and with the same standard output
\* unless that output is the help text of -h/--help, which is laid out to the
\* width of the terminal: with the same width it is the same too.
C7_SameOutputOnRerun ==
    (prev.set /\ pc = "exit" /\ SameInputs) =>
        /\ status = prev.status
        /\ out # prev.out =>
              /\ columns # prev.columns
              /\ status = 0
              /\ ~NoHelpOption(argv)
              /\ out = HelpText(columns)
              /\ prev.out = HelpText(prev.columns)

C7_Witness ==
    /\ prev.set /\ pc = "exit" /\ SameInputs
    /\ CliForm(argv) /\ PathGiven(argv) = "alt.yml"
    /\ fs # prev.fs /\ columns # prev.columns
    /\ status = 0 /\ Len(out) = 6 /\ out = prev.out

\* C8: a YAML mapping that lacks a required key is loaded all the same, the
\* document is what load_config returns, and the run fails only in the render
\* step, at the first line that reads an absent key, with a non-zero status.
C8_LazyMissingKey ==
    LET given == Given
    IN
        (CliForm(argv) /\ given.kind = "mapping" /\ ~WellFormed(given)) =>
            /\ status \in {-1, 1}
            /\ raisedAt \notin {"start", "load", "yaml", "box"}
            /\ pc \in {"p1", "p2", "p3", "p4", "p5", "cmd", "p6"} =>
                  config = [set |-> TRUE, box |-> given.doc]
            /\ pc = "exit" =>
                  /\ config = [set |-> TRUE, box |-> given.doc]
                  /\ handle = "closed"
                  /\ status = 1
                  /\ err = "BoxKeyError"
                  /\ raisedAt = PositionOfLine(FirstFailing(given.doc))

C8_Witness ==
    /\ CliForm(argv) /\ Given.kind = "mapping" /\ ~WellFormed(Given)
    /\ DOMAIN Given.doc = {"information", "binaries"}
    /\ DOMAIN Given.doc["information"] = {"rclone_connection_name", "server_name"}
    /\ pc = "exit" /\ raisedAt = "p2" /\ config.set

\* C9: the file handle is open only during the YAML parse step: whenever it is
\* open the run is inside the with block and nothing has been written, and
\* once load_config has returned or failed (a YAML parse error included) an
\* opened handle is closed.
C9_HandleScoped ==
    /\ handle = "open" => (pc \in {"yaml", "with_exit"} /\ out = <<>>)
    /\ (pc \notin {"start", "load", "yaml", "with_exit"} /\ raisedAt # "load"
            /\ openCalls # <<>>) => handle = "closed"
    /\ out # <<>> => handle # "open"

C9_Witness ==
    /\ pc = "exit" /\ raisedAt = "yaml" /\ err = "YAMLError"
    /\ handle = "closed"

\* C10 as stated: all six export lines iff exit status 0; on a missing field
\* the lines written are exactly those before the first line needing it.
C10_Original ==
    LET given == Given
    IN
        pc = "exit" =>
            /\ (Len(ExportLines(out)) = 6) <=> (status = 0)
            /\ (CliForm(argv) /\ given.kind = "mapping" /\ ~WellFormed(given)) =>
                  out = [i \in 1..(FirstFailing(given.doc) - 1) |->
                            ExpectedLine(given.doc, args.repo, i)]

\* C10 amended: all six export lines iff the run exits with status 0 and
\* standard output is not the help text of -h; on a missing field the lines
\* written are exactly those before the first line needing it, a strict prefix
\* of the six: five when only binaries.restic is absent, none when
\* information.rclone_connection_name is absent.
C10_SixLinesIffSuccess ==
    LET given == Given
    IN
        pc = "exit" =>
            /\ (Len(ExportLines(out)) = 6) <=> (status = 0 /\ out # HelpText(columns))
            /\ (status = 0 /\ out = HelpText(columns)) => ~NoHelpOption(argv)
            /\ (CliForm(argv) /\ given.kind = "mapping" /\ ~WellFormed(given)) =>
                  /\ status # 0
                  /\ FirstFailing(given.doc) <= 6
                  /\ out = [i \in 1..(FirstFailing(given.doc) - 1) |->
                              ExpectedLine(given.doc, args.repo, i)]
                  /\ ExportLines(out) = out
                  /\ (\A k \in InfoKeys : DocHas(given.doc, "information", k)) =>
                        (Len(out) = 5 /\ out[5] = "export RESTIC_REPO_NAME=" \o args.repo)
                  /\ ~DocHas(given.doc, "information", "rclone_connection_name") =>
                        out = <<>>

C10_Witness ==
    /\ CliForm(argv) /\ Given.kind = "mapping" /\ ~WellFormed(Given)
    /\ \A k \in InfoKeys : DocHas(Given.doc, "information", k)
    /\ pc = "exit" /\ status = 1 /\ Len(out) = 5 /\ raisedAt = "cmd"

====
